---- MODULE Spec2Model ----
(***************************************************************************)
(* Salary Structure validation (hrms/payroll/doctype/salary_structure)     *)
(* and the salary structure assignment helpers of the same file.           *)
(*                                                                         *)
(* Text values (formula, condition, abbr) are sequences of one-character   *)
(* strings, so that str.strip() and re.search() are computed character by  *)
(* character.  Optional numbers (net_pay, max_benefits) are <<>> for None  *)
(* and <<n>> for the number n, so that flt() is a real conversion.         *)
(***************************************************************************)
EXTENDS Integers, Sequences, FiniteSets, TLC

VARIABLES
    doc,          \* the Salary Structure document being validated (mutated in place)
    db,           \* tabSalary Component: component name -> its default values
    submitted,    \* the document as it was handed to validate
    error,        \* the exception that aborted validate, or NoError
    msgs,         \* the frappe.msgprint advisories emitted, in order
    pc,           \* "new" before validate has run, "done" after
    company_account,   \* Company.default_payroll_payable_account of company "C1"
    assignments,  \* tabSalary Structure Assignment, in insertion order
    called,       \* the last helper call and its arguments
    ret           \* what that call returned or raised

vars == <<doc, db, submitted, error, msgs, pc, company_account, assignments, called, ret>>

validateVars == <<doc, db, submitted, error, msgs, pc>>
assignVars == <<company_account, assignments, called, ret>>

(***************************************************************************)
(* Bounds                                                                  *)
(***************************************************************************)
MaxLen == 2          \* longest formula text drawn
MaxRows == 2         \* most earning rows drawn in the flexible-benefit inputs
MaxAssignments == 2  \* most assignment records created

(***************************************************************************)
(* Text                                                                    *)
(***************************************************************************)
WordChars == {"A", "B"}
Space == " "
Dot == "."

Strs(chars, n) == UNION {[1..k -> chars] : k \in 0..n}

None == <<>>
Some(n) == <<n>>

\* frappe.utils.flt: None becomes 0, a number stays itself
flt(x) == IF x = None THEN 0 ELSE x[1]

\* a name-valued field that is not set
NoneName == "None"

\* frappe.utils.cstr on a component name: None becomes the empty name
cstr(x) == IF x = NoneName THEN "" ELSE x

RECURSIVE lstrip(_)
lstrip(s) == IF s = <<>> THEN <<>>
             ELSE IF Head(s) = Space THEN lstrip(Tail(s)) ELSE s

RECURSIVE rstrip(_)
rstrip(s) == IF s = <<>> THEN <<>>
             ELSE IF s[Len(s)] = Space THEN rstrip(SubSeq(s, 1, Len(s) - 1)) ELSE s

\* str.strip()
strip(s) == rstrip(lstrip(s))

\* x.strip() if x else ""
strip_field(s) == IF s # <<>> THEN strip(s) ELSE <<>>

IsWordChar(c) == c \in WordChars

\* the regex assertion \b at offset p of s (between s[p] and s[p+1])
WordBoundary(s, p) ==
    LET before == p >= 1 /\ IsWordChar(s[p])
        after == p < Len(s) /\ IsWordChar(s[p + 1])
    IN before # after

\* one character of the pattern against one character of the text: the
\* abbreviation is concatenated into the pattern unescaped, so "." is the
\* wildcard
PatternCharMatches(p, c) == p = Dot \/ p = c

\* re.search(r"\b" + abbr + r"\b", formula) is not None
re_search(abbr, formula) ==
    \E i \in 0..(Len(formula) - Len(abbr)) :
        /\ WordBoundary(formula, i)
        /\ \A k \in 1..Len(abbr) : PatternCharMatches(abbr[k], formula[i + k])
        /\ WordBoundary(formula, i + Len(abbr))

(***************************************************************************)
(* Errors and advisories                                                   *)
(***************************************************************************)
Err(kind, table, row) == [kind |-> kind, table |-> table, row |-> row]
NoError == Err("none", "", 0)

Msg(kind, table, row) == [kind |-> kind, table |-> table, row |-> row]

\* the index of the first row for which the test, evaluated row by row into
\* hits, is true; 0 when there is none
FirstRow(hits) ==
    IF \E i \in 1..Len(hits) : hits[i]
    THEN CHOOSE i \in 1..Len(hits) : hits[i] /\ \A j \in 1..(i - 1) : ~hits[j]
    ELSE 0

(***************************************************************************)
(* SalaryStructure.set_missing_values                                      *)
(***************************************************************************)
\* amount, formula and amount_based_on_formula overwritten like the flags
set_missing_values_row_Always(d, comps) ==
    IF cstr(d.salary_component) \in DOMAIN comps
    THEN LET v == comps[cstr(d.salary_component)]
         IN [d EXCEPT !.depends_on_payment_days = v.depends_on_payment_days,
                      !.variable_based_on_taxable_salary = v.variable_based_on_taxable_salary,
                      !.is_tax_applicable = v.is_tax_applicable,
                      !.is_flexible_benefit = v.is_flexible_benefit,
                      !.amount_based_on_formula = v.amount_based_on_formula,
                      !.formula = v.formula,
                      !.amount = v.amount]
    ELSE d

set_missing_values_row(d, comps) ==
    IF cstr(d.salary_component) \in DOMAIN comps
    THEN LET v == comps[cstr(d.salary_component)]
             d1 == [d EXCEPT !.depends_on_payment_days = v.depends_on_payment_days,
                             !.variable_based_on_taxable_salary = v.variable_based_on_taxable_salary,
                             !.is_tax_applicable = v.is_tax_applicable,
                             !.is_flexible_benefit = v.is_flexible_benefit]
         IN IF ~(d1.amount # 0 \/ d1.formula # <<>>)
            THEN [d1 EXCEPT !.amount_based_on_formula = v.amount_based_on_formula,
                            !.formula = v.formula,
                            !.amount = v.amount]
            ELSE d1
    ELSE d

set_missing_values(s, comps) ==
    [s EXCEPT !.earnings = [i \in 1..Len(s.earnings) |-> set_missing_values_row(s.earnings[i], comps)],
              !.deductions = [i \in 1..Len(s.deductions) |-> set_missing_values_row(s.deductions[i], comps)]]

(***************************************************************************)
(* SalaryStructure.validate_amount                                         *)
(***************************************************************************)
\* the comparison written <= instead of <
validate_amount_NonPositive(s) ==
    IF flt(s.net_pay) <= 0 /\ s.salary_slip_based_on_timesheet # 0
    THEN Err("NetPayNegative", "", 0)
    ELSE NoError

validate_amount(s) ==
    IF flt(s.net_pay) < 0 /\ s.salary_slip_based_on_timesheet # 0
    THEN Err("NetPayNegative", "", 0)
    ELSE NoError

(***************************************************************************)
(* SalaryStructure.strip_condition_and_formula_fields                      *)
(***************************************************************************)
strip_row(row) == [row EXCEPT !.condition = strip_field(row.condition),
                              !.formula = strip_field(row.formula)]

strip_condition_and_formula_fields(s) ==
    [s EXCEPT !.earnings = [i \in 1..Len(s.earnings) |-> strip_row(s.earnings[i])],
              !.deductions = [i \in 1..Len(s.deductions) |-> strip_row(s.deductions[i])]]

(***************************************************************************)
(* SalaryStructure.validate_max_benefits_with_flexi                        *)
(***************************************************************************)
IsFlexi(row) == row.is_flexible_benefit = 1

\* frappe.db.get_value("Salary Component", name, "max_benefit_amount"):
\* None when there is no such component
max_of_component(row, comps) ==
    IF row.salary_component \in DOMAIN comps
    THEN Some(comps[row.salary_component].max_benefit_amount)
    ELSE None

\* flexi_amount after the loop over the earnings
RECURSIVE flexi_amount(_, _)
flexi_amount(rows, comps) ==
    IF rows = <<>> THEN 0
    ELSE (IF IsFlexi(Head(rows)) THEN max_of_component(Head(rows), comps)[1] ELSE 0)
         + flexi_amount(Tail(rows), comps)

validate_max_benefits_with_flexi(s, comps) ==
    LET have_a_flexi == \E i \in 1..Len(s.earnings) : IsFlexi(s.earnings[i])
        NoCeiling(row) == IsFlexi(row) /\ max_of_component(row, comps) = None
        bad == FirstRow([i \in 1..Len(s.earnings) |-> NoCeiling(s.earnings[i])])
    IN IF bad # 0
       THEN Err("TypeError", "earnings", bad)   \* flexi_amount += None
       ELSE IF have_a_flexi /\ flt(s.max_benefits) = 0
       THEN Err("MaxBenefitsZero", "", 0)
       ELSE IF have_a_flexi /\ flexi_amount(s.earnings, comps) # 0
               /\ flt(s.max_benefits) > flexi_amount(s.earnings, comps)
       THEN Err("MaxBenefitsExceedFlexi", "", 0)
       ELSE IF ~have_a_flexi /\ flt(s.max_benefits) > 0
       THEN Err("NoFlexiComponent", "", 0)
       ELSE NoError

(***************************************************************************)
(* SalaryStructure.validate_component_based_on_tax_slab                    *)
(***************************************************************************)
\* the rule with the formula left out of the test
TaxSlabRowInvalid_AmountOnly(row) ==
    row.variable_based_on_taxable_salary # 0 /\ row.amount # 0

TaxSlabRowInvalid(row) ==
    row.variable_based_on_taxable_salary # 0 /\ (row.amount # 0 \/ row.formula # <<>>)

validate_component_based_on_tax_slab(s) ==
    LET bad == FirstRow([i \in 1..Len(s.deductions) |-> TaxSlabRowInvalid(s.deductions[i])])
    IN IF bad # 0 THEN Err("TaxSlab", "deductions", bad) ELSE NoError

(***************************************************************************)
(* SalaryStructure.get_component_abbreviations and                         *)
(* SalaryStructure.validate_payment_days_based_dependent_component         *)
(***************************************************************************)
get_component_abbreviations(s) ==
    SelectSeq(s.earnings, LAMBDA d : d.depends_on_payment_days # 0)
    \o SelectSeq(s.deductions, LAMBDA d : d.depends_on_payment_days # 0)

\* the row's own abbreviation left out of the search
PaymentDaysRowInvalid_OthersOnly(row, abbreviations) ==
    /\ row.formula # <<>>
    /\ row.depends_on_payment_days # 0
    /\ \E k \in 1..Len(abbreviations) :
          abbreviations[k] # row /\ re_search(abbreviations[k].abbr, row.formula)

PaymentDaysRowInvalid(row, abbreviations) ==
    /\ row.formula # <<>>
    /\ row.depends_on_payment_days # 0
    /\ \E k \in 1..Len(abbreviations) : re_search(abbreviations[k].abbr, row.formula)

validate_payment_days_based_dependent_component(s) ==
    LET abbreviations == get_component_abbreviations(s)
        Bad(row) == PaymentDaysRowInvalid(row, abbreviations)
        e == FirstRow([i \in 1..Len(s.earnings) |-> Bad(s.earnings[i])])
        d == FirstRow([i \in 1..Len(s.deductions) |-> Bad(s.deductions[i])])
    IN IF e # 0 THEN Err("PaymentDays", "earnings", e)
       ELSE IF d # 0 THEN Err("PaymentDays", "deductions", d)
       ELSE NoError

(***************************************************************************)
(* SalaryStructure.validate_timesheet_component                            *)
(***************************************************************************)
\* the early return on salary_slip_based_on_timesheet left out
validate_timesheet_component_NoGuard(s) ==
    IF \E i \in 1..Len(s.earnings) : s.earnings[i].salary_component = s.salary_component
    THEN <<Msg("TimesheetOverwrite", "", 0)>>
    ELSE <<>>

validate_timesheet_component(s) ==
    IF s.salary_slip_based_on_timesheet = 0 THEN <<>>
    ELSE IF \E i \in 1..Len(s.earnings) : s.earnings[i].salary_component = s.salary_component
    THEN <<Msg("TimesheetOverwrite", "", 0)>>
    ELSE <<>>

(***************************************************************************)
(* SalaryStructure.validate_formula_setup                                  *)
(***************************************************************************)
FormulaDisabled(row) == row.amount_based_on_formula = 0 /\ row.formula # <<>>

RECURSIVE formula_setup_rows(_, _, _)
formula_setup_rows(rows, table, i) ==
    IF i > Len(rows) THEN <<>>
    ELSE (IF FormulaDisabled(rows[i]) THEN <<Msg("FormulaDisabled", table, i)>> ELSE <<>>)
         \o formula_setup_rows(rows, table, i + 1)

validate_formula_setup(s) ==
    formula_setup_rows(s.earnings, "earnings", 1)
    \o formula_setup_rows(s.deductions, "deductions", 1)

(***************************************************************************)
(* SalaryStructure.validate: the document, the exception and the           *)
(* advisories it leaves behind.  An exception ends it at once.             *)
(***************************************************************************)
Outcome(s, e, m) == [doc |-> s, error |-> e, msgs |-> m]

\* the checks called in the order tax-slab, net-pay, payment-days,
\* flexible-benefit, after the formula advisory
validate_TaxSlabFirst(s, comps) ==
    LET s1 == set_missing_values(s, comps)
        s2 == strip_condition_and_formula_fields(s1)
        m2 == validate_formula_setup(s2)
        e3 == validate_component_based_on_tax_slab(s2)
        e1 == validate_amount(s2)
        e4 == validate_payment_days_based_dependent_component(s2)
        m1 == validate_timesheet_component(s2)
        e2 == validate_max_benefits_with_flexi(s2, comps)
    IN IF e3 # NoError THEN Outcome(s2, e3, m2)
       ELSE IF e1 # NoError THEN Outcome(s2, e1, m2)
       ELSE IF e4 # NoError THEN Outcome(s2, e4, m2)
       ELSE IF e2 # NoError THEN Outcome(s2, e2, m2 \o m1)
       ELSE Outcome(s2, NoError, m2 \o m1)

validate(s, comps) ==
    LET s1 == set_missing_values(s, comps)
        e1 == validate_amount(s1)
        s2 == strip_condition_and_formula_fields(s1)
        e2 == validate_max_benefits_with_flexi(s2, comps)
        e3 == validate_component_based_on_tax_slab(s2)
        e4 == validate_payment_days_based_dependent_component(s2)
        m1 == validate_timesheet_component(s2)
        m2 == validate_formula_setup(s2)
    IN IF e1 # NoError THEN Outcome(s1, e1, <<>>)
       ELSE IF e2 # NoError THEN Outcome(s2, e2, <<>>)
       ELSE IF e3 # NoError THEN Outcome(s2, e3, <<>>)
       ELSE IF e4 # NoError THEN Outcome(s2, e4, <<>>)
       ELSE Outcome(s2, NoError, m1 \o m2)

(***************************************************************************)
(* The documents and component tables validate is run on                   *)
(***************************************************************************)
Line(comp, abbr, amount, formula, condition, dpd, vbts, ita, ifb, abof) ==
    [salary_component |-> comp, abbr |-> abbr, amount |-> amount,
     formula |-> formula, condition |-> condition,
     depends_on_payment_days |-> dpd, variable_based_on_taxable_salary |-> vbts,
     is_tax_applicable |-> ita, is_flexible_benefit |-> ifb,
     amount_based_on_formula |-> abof]

Component(dpd, vbts, ita, ifb, abof, formula, amount, ceiling) ==
    [depends_on_payment_days |-> dpd, variable_based_on_taxable_salary |-> vbts,
     is_tax_applicable |-> ita, is_flexible_benefit |-> ifb,
     amount_based_on_formula |-> abof, formula |-> formula, amount |-> amount,
     max_benefit_amount |-> ceiling]

Structure(net_pay, max_benefits, timesheet, comp, earnings, deductions) ==
    [net_pay |-> net_pay, max_benefits |-> max_benefits,
     salary_slip_based_on_timesheet |-> timesheet, salary_component |-> comp,
     earnings |-> earnings, deductions |-> deductions]

Flags == {0, 1}
Amounts == {0, 5}

\* the four propagated flags, drawn together:
\* <<depends_on_payment_days, variable_based_on_taxable_salary,
\*   is_tax_applicable, is_flexible_benefit>>
FlagProfiles == {<<0, 0, 0, 0>>, <<0, 1, 0, 0>>, <<1, 1, 1, 1>>}

\* a flexible-benefit component with a ceiling of 50 and a default formula
\* whose "amount based on formula" is off
BenefitComponent == Component(0, 0, 0, 1, 0, <<"A">>, 0, 50)

SeqsUpTo(S, n) == UNION {[1..k -> S] : k \in 0..n}

\* Inputs about default propagation, trimming and the tax-slab rule: one
\* line, as an earning or as a deduction, against one component whose
\* defaults vary; the line may also name a component that does not exist.
PropagationLines ==
    {Line(c, <<"A">>, a, f, <<"A", Space>>, p[1], p[2], p[3], p[4], abof) :
        c \in {"SC1", "GHOST"}, a \in Amounts, f \in Strs({"A", Space}, MaxLen),
        p \in FlagProfiles, abof \in Flags}

PropagationTables ==
    {[SC1 |-> Component(p[1], p[2], p[3], p[4], abof, f, a, 50)] :
        p \in FlagProfiles, abof \in Flags,
        f \in {<<>>, <<"A">>, <<Space, "A">>}, a \in Amounts}

PropagationScalars == {<<Some(-1), 1>>, <<Some(0), 1>>, <<Some(-1), 0>>}

InitPropagation ==
    \E n \in PropagationScalars, mb \in {Some(0), Some(100)},
       x \in PropagationLines, asEarning \in BOOLEAN, t \in PropagationTables :
        /\ doc = Structure(n[1], mb, n[2], NoneName,
                           IF asEarning THEN <<x>> ELSE <<>>,
                           IF asEarning THEN <<>> ELSE <<x>>)
        /\ db = t

\* Inputs about the payment-days rule: two lines with varying abbreviation,
\* formula and flag, naming no existing component (their flags stay as
\* submitted).
Abbrs == {<<"A">>, <<"B">>, <<"A", Dot>>}

PaymentDaysLines ==
    {Line("GHOST", ab, 0, f, <<>>, dpd, 0, 0, 0, 1) :
        ab \in Abbrs, f \in Strs(WordChars \cup {Space}, MaxLen), dpd \in Flags}

InitPaymentDays ==
    \E x \in PaymentDaysLines, y \in PaymentDaysLines, bothEarnings \in BOOLEAN :
        /\ doc = Structure(Some(0), None, 0, NoneName,
                           IF bothEarnings THEN <<x, y>> ELSE <<x>>,
                           IF bothEarnings THEN <<>> ELSE <<y>>)
        /\ db = [SC1 |-> BenefitComponent]

\* Inputs about flexible benefits and the timesheet notice: up to MaxRows
\* earnings, flexible or not, over two components with ceilings
FlexiLines ==
    {Line(c, <<"A">>, 0, <<>>, <<>>, 0, 0, 0, ifb, 0) :
        c \in {"SC1", "SC2", "GHOST"}, ifb \in Flags}

FlexiTables ==
    {[SC1 |-> Component(0, 0, 0, ifb, 0, <<>>, 0, ceiling), SC2 |-> BenefitComponent] :
        ifb \in Flags, ceiling \in {-5, 0, 50}}

InitFlexi ==
    \E np \in {None, Some(0)},
       mb \in {None, Some(-1), Some(0), Some(40), Some(60), Some(100)},
       ts \in Flags, sc \in {NoneName, "SC1"},
       e \in SeqsUpTo(FlexiLines, MaxRows), t \in FlexiTables :
        /\ doc = Structure(np, mb, ts, sc, e, <<>>)
        /\ db = t

InitValidate ==
    /\ InitPropagation \/ InitPaymentDays \/ InitFlexi
    /\ submitted = doc
    /\ error = NoError
    /\ msgs = <<>>
    /\ pc = "new"

\* no helper has been called and no assignment exists
NoCall == [op |-> "none"]
NoReturn == [error |-> "none", name |-> 0, employees |-> {}, advisory |-> FALSE]

IdleAssign ==
    /\ company_account = NoneName
    /\ assignments = <<>>
    /\ called = NoCall
    /\ ret = NoReturn

Init == InitValidate /\ IdleAssign

\* the save handler runs validate on the document
Validate ==
    /\ pc = "new"
    /\ LET r == validate(doc, db)
       IN /\ doc' = r.doc
          /\ error' = r.error
          /\ msgs' = r.msgs
    /\ pc' = "done"
    /\ UNCHANGED <<db, submitted, assignVars>>

Next == Validate

Spec == Init /\ [][Next]_vars

(***************************************************************************)
(* The assignment helpers: the tables they read                            *)
(***************************************************************************)
Employees == {"E1", "E2"}
Companies == {"C1", "C2"}
Currencies == {"USD", "EUR"}
Dates == {1, 2}

\* the Salary Structure document handed to get_existing_assignments
Structures == {[name |-> "S1", company |-> "C1"]}

\* tabAccount: account name -> account_currency ("PAY_GONE" names no account)
Accounts == [PAY_USD |-> "USD", PAY_INR |-> "INR"]

\* frappe.db.get_value("Company", company, "default_payroll_payable_account")
default_payroll_payable_account(company, c1_account) ==
    IF company = "C1" THEN c1_account ELSE NoneName

\* frappe.db.get_value("Account", account, "account_currency"): None when
\* there is no such account
account_currency(account) ==
    IF account \in DOMAIN Accounts THEN Accounts[account] ELSE NoneName

\* erpnext.get_company_currency
get_company_currency(company) == IF company = "C1" THEN "USD" ELSE "EUR"

\* assignment.save(); assignment.submit(): the record is inserted under a
\* fresh name with docstatus 1
SaveAndSubmit(table, rec) ==
    Append(table, [rec EXCEPT !.name = Len(table) + 1, !.docstatus = 1])

(***************************************************************************)
(* create_salary_structure_assignment                                      *)
(***************************************************************************)
CreateArgs ==
    [employee : Employees, salary_structure : {"S1"}, company : Companies,
     currency : Currencies, from_date : Dates,
     payroll_payable_account : {NoneName, "PAY_USD", "PAY_INR", "PAY_GONE"},
     base : {NoneName}, variable : {NoneName}, income_tax_slab : {NoneName}]

\* the account the assignment is booked on: the one supplied, else the
\* company's default
resolve_payroll_payable_account(a, c1_account) ==
    IF a.payroll_payable_account = NoneName
    THEN default_payroll_payable_account(a.company, c1_account)
    ELSE a.payroll_payable_account

\* "or" in place of "and": the account currency must equal both
InvalidAccountCurrency_Either(account, a) ==
    \/ account_currency(account) # a.currency
    \/ account_currency(account) # get_company_currency(a.company)

InvalidAccountCurrency(account, a) ==
    /\ account_currency(account) # a.currency
    /\ account_currency(account) # get_company_currency(a.company)

\* the result: the exception raised ("none" when there is none) and the
\* table afterwards
create_salary_structure_assignment(a, table, c1_account) ==
    LET account == resolve_payroll_payable_account(a, c1_account)
    IN IF account = NoneName
       THEN [error |-> "NoPayableAccount", table |-> table]
       ELSE IF InvalidAccountCurrency(account, a)
       THEN [error |-> "InvalidAccountCurrency", table |-> table]
       ELSE [error |-> "none",
             table |-> SaveAndSubmit(table,
                 [name |-> 0, docstatus |-> 0,
                  employee |-> a.employee, salary_structure |-> a.salary_structure,
                  company |-> a.company, currency |-> a.currency,
                  payroll_payable_account |-> account, from_date |-> a.from_date,
                  base |-> a.base, variable |-> a.variable,
                  income_tax_slab |-> a.income_tax_slab])]

(***************************************************************************)
(* get_existing_assignments                                                *)
(***************************************************************************)
\* select distinct employee ... where salary_structure=%s and employee in
\* (...) and from_date=%s and company=%s and docstatus=1
get_existing_assignments(employees, salary_structure, from_date, table) ==
    {table[i].employee : i \in {j \in 1..Len(table) :
        /\ table[j].salary_structure = salary_structure.name
        /\ table[j].employee \in employees
        /\ table[j].from_date = from_date
        /\ table[j].company = salary_structure.company
        /\ table[j].docstatus = 1}}

\* a caller creates an assignment
Create ==
    /\ Len(assignments) < MaxAssignments
    /\ \E a \in CreateArgs :
          LET r == create_salary_structure_assignment(a, assignments, company_account)
          IN /\ assignments' = r.table
             /\ called' = [op |-> "create", args |-> a]
             /\ ret' = [NoReturn EXCEPT !.error = r.error,
                                        !.name = IF r.error = "none" THEN Len(r.table) ELSE 0]
    /\ UNCHANGED <<company_account, validateVars>>

\* a caller asks which employees already have an assignment; an empty
\* employee list makes the statement "employee in ()", which the database
\* rejects
GetExisting ==
    /\ \E employees \in SUBSET Employees, st \in Structures, date \in Dates :
          LET found == get_existing_assignments(employees, st, date, assignments)
          IN /\ called' = [op |-> "get_existing", employees |-> employees,
                           salary_structure |-> st, from_date |-> date]
             /\ ret' = IF employees = {}
                       THEN [NoReturn EXCEPT !.error = "SQLError"]
                       ELSE [NoReturn EXCEPT !.employees = found, !.advisory = found # {}]
    /\ UNCHANGED <<company_account, assignments, validateVars>>

IdleValidate ==
    /\ doc = Structure(None, None, 0, NoneName, <<>>, <<>>)
    /\ db = [SC1 |-> BenefitComponent]
    /\ submitted = doc
    /\ error = NoError
    /\ msgs = <<>>
    /\ pc = "new"

InitAssign ==
    /\ IdleValidate
    /\ company_account \in {NoneName, "PAY_USD", "PAY_INR"}
    /\ assignments = <<>>
    /\ called = NoCall
    /\ ret = NoReturn

NextAssign == Create \/ GetExisting

AssignSpec == InitAssign /\ [][NextAssign]_vars

(***************************************************************************)
(* Vocabulary of the properties, stated on the submitted document and the  *)
(* component table rather than through the operators above                 *)
(***************************************************************************)
Done == pc = "done"
Saved == Done /\ error = NoError

Tables == {"earnings", "deductions"}
Rows(s, table) == IF table = "earnings" THEN s.earnings ELSE s.deductions
RowIds(s) == {<<"earnings", i>> : i \in 1..Len(s.earnings)}
                \cup {<<"deductions", i>> : i \in 1..Len(s.deductions)}
RowAt(s, id) == Rows(s, id[1])[id[2]]

\* s without its leading and trailing blanks
Trimmed(s) ==
    LET inked == {k \in 1..Len(s) : s[k] # Space}
    IN IF inked = {} THEN <<>>
       ELSE SubSeq(s, CHOOSE a \in inked : \A k \in inked : a <= k,
                      CHOOSE b \in inked : \A k \in inked : b >= k)

\* the maximal runs of word characters of s
Tokens(s) ==
    {SubSeq(s, x[1], x[2]) : x \in
        {y \in (1..Len(s)) \X (1..Len(s)) :
            /\ y[1] <= y[2]
            /\ \A k \in y[1]..y[2] : IsWordChar(s[k])
            /\ (y[1] = 1 \/ ~IsWordChar(s[y[1] - 1]))
            /\ (y[2] = Len(s) \/ ~IsWordChar(s[y[2] + 1]))}}

ContainsWholeWord(abbr, text) == abbr \in Tokens(text)

HasComponent(row) == row.salary_component \in DOMAIN db
Unset(row) == row.amount = 0 /\ row.formula = <<>>

\* what a submitted row is expected to hold once validate has passed
ExpectedRow(row) ==
    LET v == db[row.salary_component]
        fill == HasComponent(row) /\ Unset(row)
    IN [salary_component |-> row.salary_component,
        abbr |-> row.abbr,
        depends_on_payment_days |->
            IF HasComponent(row) THEN v.depends_on_payment_days ELSE row.depends_on_payment_days,
        variable_based_on_taxable_salary |->
            IF HasComponent(row) THEN v.variable_based_on_taxable_salary
            ELSE row.variable_based_on_taxable_salary,
        is_tax_applicable |->
            IF HasComponent(row) THEN v.is_tax_applicable ELSE row.is_tax_applicable,
        is_flexible_benefit |->
            IF HasComponent(row) THEN v.is_flexible_benefit ELSE row.is_flexible_benefit,
        amount_based_on_formula |->
            IF fill THEN v.amount_based_on_formula ELSE row.amount_based_on_formula,
        amount |-> IF fill THEN v.amount ELSE row.amount,
        formula |-> Trimmed(IF fill THEN v.formula ELSE row.formula),
        condition |-> Trimmed(row.condition)]

(***************************************************************************)
(* C1                                                                      *)
(***************************************************************************)
SubmittedTaxSlabWithValue(row) ==
    row.variable_based_on_taxable_salary # 0 /\ (row.amount # 0 \/ row.formula # <<>>)

\* C1 as stated: a deduction submitted with variable_based_on_taxable_salary
\* set and a non-empty amount or formula makes the save fail, whatever the
\* component's defaults are.
C1_SubmittedTaxSlabAlwaysFails ==
    Done /\ (\E i \in 1..Len(submitted.deductions) :
                SubmittedTaxSlabWithValue(submitted.deductions[i]))
        => error # NoError

ExpectedTaxSlabWithValue(row) ==
    LET x == ExpectedRow(row)
    IN x.variable_based_on_taxable_salary # 0 /\ (x.amount # 0 \/ x.formula # <<>>)

\* C1 amended: the save fails whenever a deduction has the flag set after
\* default propagation (the component's default when the component exists,
\* the submitted flag otherwise) and then carries a non-zero amount or a
\* formula that is non-empty once trimmed.
C1_PropagatedTaxSlabAlwaysFails ==
    Done /\ (\E i \in 1..Len(submitted.deductions) :
                ExpectedTaxSlabWithValue(submitted.deductions[i]))
        => error # NoError

\* C1 witness: the flag came from the component, not from the submitted line
C1_Witness ==
    /\ Done
    /\ error.kind = "TaxSlab"
    /\ \E i \in 1..Len(submitted.deductions) :
          /\ ExpectedTaxSlabWithValue(submitted.deductions[i])
          /\ submitted.deductions[i].variable_based_on_taxable_salary = 0

(***************************************************************************)
(* C2                                                                      *)
(***************************************************************************)
FlexiRows(s) == {i \in 1..Len(s.earnings) : s.earnings[i].is_flexible_benefit = 1}

RECURSIVE CeilingSum(_, _)
CeilingSum(s, ids) ==
    IF ids = {} THEN 0
    ELSE LET i == CHOOSE i \in ids : TRUE
         IN db[s.earnings[i].salary_component].max_benefit_amount
            + CeilingSum(s, ids \ {i})

\* C2: every accepted structure satisfies the flexible-benefit invariant:
\* with a flexible earning, 0 < max_benefits <= the sum of the flexible
\* components' ceilings; without one, max_benefits is not positive.
C2_AcceptedSatisfiesFlexiInvariant ==
    Saved =>
        /\ FlexiRows(doc) # {} =>
              /\ flt(doc.max_benefits) > 0
              /\ flt(doc.max_benefits) <= CeilingSum(doc, FlexiRows(doc))
        /\ FlexiRows(doc) = {} => ~(flt(doc.max_benefits) > 0)

(***************************************************************************)
(* C3                                                                      *)
(***************************************************************************)
NetPayNegativeOnTimesheet ==
    flt(submitted.net_pay) < 0 /\ submitted.salary_slip_based_on_timesheet # 0

OtherErrorKinds ==
    {"TypeError", "MaxBenefitsZero", "MaxBenefitsExceedFlexi", "NoFlexiComponent",
     "TaxSlab", "PaymentDays"}

\* C3: validate ends with "Net pay cannot be negative" exactly when
\* net_pay < 0 on a timesheet-based structure; with net_pay >= 0 or no
\* timesheet the save is accepted unless another rule rejects it.
C3_NetPayErrorIffNegativeOnTimesheet ==
    Done =>
        /\ NetPayNegativeOnTimesheet <=> error.kind = "NetPayNegative"
        /\ ~NetPayNegativeOnTimesheet => error = NoError \/ error.kind \in OtherErrorKinds

\* C3 witness: a timesheet-based structure with net_pay = 0 is saved
C3_Witness ==
    /\ Saved
    /\ submitted.net_pay = Some(0)
    /\ submitted.salary_slip_based_on_timesheet = 1

(***************************************************************************)
(* C4                                                                      *)
(***************************************************************************)
\* the checks that run before the payment-days check
BeforePaymentDays ==
    {"NetPayNegative", "TypeError", "MaxBenefitsZero", "MaxBenefitsExceedFlexi",
     "NoFlexiComponent", "TaxSlab"}

ReachedPaymentDays == Done /\ error.kind \notin BeforePaymentDays

DependentIds(s) == {id \in RowIds(s) : RowAt(s, id).depends_on_payment_days # 0}

\* row id has a formula, depends on payment days, and its formula holds the
\* abbreviation of some payment-days-dependent row as a whole word
DoubleCounts(s, id) ==
    /\ RowAt(s, id).formula # <<>>
    /\ id \in DependentIds(s)
    /\ \E other \in DependentIds(s) :
          ContainsWholeWord(RowAt(s, other).abbr, RowAt(s, id).formula)

\* C4: the payment-days check aborts the save if and only if some line has
\* a formula, depends on payment days, and its formula contains as a whole
\* word the abbreviation of a payment-days-dependent line.
C4_PaymentDaysErrorIffWholeWord ==
    ReachedPaymentDays =>
        (error.kind = "PaymentDays" <=> \E id \in RowIds(doc) : DoubleCounts(doc, id))

\* C4 restricted to abbreviations made of word characters only, where the
\* pattern built from the abbreviation matches it literally
C4_HoldsForWordAbbreviations ==
    ReachedPaymentDays /\ (\A id \in RowIds(doc) : \A k \in 1..Len(RowAt(doc, id).abbr) :
                              IsWordChar(RowAt(doc, id).abbr[k]))
        => (error.kind = "PaymentDays" <=> \E id \in RowIds(doc) : DoubleCounts(doc, id))

(***************************************************************************)
(* C5                                                                      *)
(***************************************************************************)
FlagsFollowComponent(row, v) ==
    /\ row.depends_on_payment_days = v.depends_on_payment_days
    /\ row.variable_based_on_taxable_salary = v.variable_based_on_taxable_salary
    /\ row.is_tax_applicable = v.is_tax_applicable
    /\ row.is_flexible_benefit = v.is_flexible_benefit

SameValueFields(row, v) ==
    /\ row.amount = v.amount
    /\ row.formula = v.formula
    /\ row.amount_based_on_formula = v.amount_based_on_formula

\* C5 as stated: after a successful save a line of an existing component has
\* the component's four flags; its amount, formula and
\* amount_based_on_formula equal the component's defaults when amount and
\* formula were both unset, and the submitted values otherwise.
C5_DefaultsPropagatedVerbatim ==
    Saved =>
        \A id \in RowIds(submitted) :
            LET before == RowAt(submitted, id)
                after == RowAt(doc, id)
                v == db[before.salary_component]
            IN HasComponent(before) =>
                  /\ FlagsFollowComponent(after, v)
                  /\ SameValueFields(after, IF Unset(before) THEN v ELSE before)

\* C5 amended: as stated, except that the formula left on the line is the
\* component's default (line unset) or the submitted formula (line set)
\* with leading and trailing whitespace trimmed, as is the condition;
\* nothing else on the line changes.
C5_DefaultsPropagatedThenTrimmed ==
    Saved =>
        \A id \in RowIds(submitted) :
            HasComponent(RowAt(submitted, id)) =>
                RowAt(doc, id) = ExpectedRow(RowAt(submitted, id))

\* C5 witness: an unset line took a default formula that had to be trimmed
C5_Witness ==
    /\ Saved
    /\ \E id \in RowIds(submitted) :
          /\ HasComponent(RowAt(submitted, id))
          /\ Unset(RowAt(submitted, id))
          /\ db[RowAt(submitted, id).salary_component].formula = <<Space, "A">>
          /\ RowAt(doc, id).formula = <<"A">>
          /\ RowAt(doc, id).amount = db[RowAt(submitted, id).salary_component].amount

(***************************************************************************)
(* C8                                                                      *)
(***************************************************************************)
\* the submitted document with defaults propagated and texts trimmed
Normal ==
    [submitted EXCEPT
        !.earnings = [i \in 1..Len(submitted.earnings) |-> ExpectedRow(submitted.earnings[i])],
        !.deductions = [i \in 1..Len(submitted.deductions) |-> ExpectedRow(submitted.deductions[i])]]

FailsNetPay == validate_amount(Normal) # NoError
FailsFlexi == validate_max_benefits_with_flexi(Normal, db) # NoError
FailsTaxSlab == validate_component_based_on_tax_slab(Normal) # NoError
FailsPaymentDays == validate_payment_days_based_dependent_component(Normal) # NoError

\* the check an error belongs to
CheckOf(kind) ==
    CASE kind = "NetPayNegative" -> "net-pay"
      [] kind \in {"TypeError", "MaxBenefitsZero", "MaxBenefitsExceedFlexi", "NoFlexiComponent"}
            -> "flexible-benefit"
      [] kind = "TaxSlab" -> "tax-slab"
      [] kind = "PaymentDays" -> "payment-days"
      [] OTHER -> "none"

FormulaDisabledIds(s) ==
    {id \in RowIds(s) : RowAt(s, id).amount_based_on_formula = 0 /\ RowAt(s, id).formula # <<>>}

TimesheetNotices == {k \in 1..Len(msgs) : msgs[k].kind = "TimesheetOverwrite"}

AdvisedIds == {<<msgs[k].table, msgs[k].row>> : k \in {j \in 1..Len(msgs) : msgs[j].kind = "FormulaDisabled"}}

\* C8 as stated: the error raised is that of the earliest violated check in
\* the order tax-slab, net-pay, payment-days, flexible-benefit, and the
\* formula-vs-flag advisory has been emitted by the time a blocking check
\* fails.
C8_ClaimedOrder ==
    Done =>
        /\ CheckOf(error.kind) =
              (IF FailsTaxSlab THEN "tax-slab"
               ELSE IF FailsNetPay THEN "net-pay"
               ELSE IF FailsPaymentDays THEN "payment-days"
               ELSE IF FailsFlexi THEN "flexible-benefit"
               ELSE "none")
        /\ error # NoError => AdvisedIds = FormulaDisabledIds(Normal)

\* C8 amended: validate runs default propagation, net-pay sign, trimming,
\* flexible-benefit ceiling, tax-slab exclusivity, payment-days
\* double-count, timesheet notice, formula-vs-flag advisory.  The error
\* raised is that of the earliest violated check in the order net-pay,
\* flexible-benefit, tax-slab, payment-days; no advisory has been emitted
\* when a blocking check fails; on success the timesheet notice precedes
\* the formula-vs-flag advisories, one for each such row.
C8_CodeOrder ==
    Done =>
        /\ CheckOf(error.kind) =
              (IF FailsNetPay THEN "net-pay"
               ELSE IF FailsFlexi THEN "flexible-benefit"
               ELSE IF FailsTaxSlab THEN "tax-slab"
               ELSE IF FailsPaymentDays THEN "payment-days"
               ELSE "none")
        /\ error # NoError => msgs = <<>>
        /\ error = NoError =>
              /\ AdvisedIds = FormulaDisabledIds(Normal)
              /\ \A i \in 1..Len(msgs) : \A j \in 1..Len(msgs) :
                    msgs[i].kind = "FormulaDisabled" /\ msgs[j].kind = "TimesheetOverwrite"
                        => j < i

\* on success the timesheet notice and a formula-vs-flag advisory have both
\* been emitted
BothAdvisoriesEmitted ==
    /\ Saved
    /\ TimesheetNotices # {}
    /\ AdvisedIds # {}

\* C8 witness: net pay and the tax-slab rule are both violated, and net pay
\* is reported
C8_Witness ==
    /\ Done
    /\ FailsNetPay /\ FailsTaxSlab
    /\ error.kind = "NetPayNegative"

(***************************************************************************)
(* C9                                                                      *)
(***************************************************************************)
OnlySelfReference(s, id) ==
    /\ id \in DependentIds(s)
    /\ ContainsWholeWord(RowAt(s, id).abbr, RowAt(s, id).formula)
    /\ \A other \in DependentIds(s) \ {id} :
          ~ContainsWholeWord(RowAt(s, other).abbr, RowAt(s, id).formula)

WordAbbreviations(s) ==
    \A id \in RowIds(s) : \A k \in 1..Len(RowAt(s, id).abbr) : IsWordChar(RowAt(s, id).abbr[k])

\* C9 as stated: a payment-days-dependent line whose formula contains its
\* own abbreviation as a whole word, and no other dependent line's, does
\* not fail the payment-days check.  Stated for documents in which every
\* dependent line with a formula is such a line and every abbreviation is
\* made of word characters, so that nothing but the line's own abbreviation
\* can be what the check found.
C9_OwnAbbreviationIgnored ==
    ReachedPaymentDays /\ WordAbbreviations(doc)
        /\ (\A id \in DependentIds(doc) : RowAt(doc, id).formula # <<>> => OnlySelfReference(doc, id))
        => error.kind # "PaymentDays"

\* C9 amended: the check collects the abbreviations of every
\* payment-days-dependent line, the line itself included; a dependent line
\* whose formula contains its own abbreviation as a whole word fails the
\* payment-days check.
C9_OwnAbbreviationCounts ==
    ReachedPaymentDays
        /\ (\E id \in DependentIds(doc) :
                ContainsWholeWord(RowAt(doc, id).abbr, RowAt(doc, id).formula))
        => error.kind = "PaymentDays"

\* C9 witness: rejected although the only abbreviation in a dependent formula is its own
C9_Witness ==
    /\ Done
    /\ error.kind = "PaymentDays"
    /\ WordAbbreviations(doc)
    /\ \A id \in DependentIds(doc) : RowAt(doc, id).formula # <<>> => OnlySelfReference(doc, id)

(***************************************************************************)
(* C10                                                                     *)
(***************************************************************************)
EarningIsTimesheetComponent ==
    \E i \in 1..Len(doc.earnings) : doc.earnings[i].salary_component = doc.salary_component

\* C10 as stated: on a structure that passes the blocking checks the
\* timesheet notice is emitted iff some earning's component is the
\* structure's timesheet component, and at most once.
C10_NoticeIffEarningMatches ==
    Saved =>
        /\ TimesheetNotices # {} <=> EarningIsTimesheetComponent
        /\ Cardinality(TimesheetNotices) <= 1

\* C10 amended: ... iff the structure is timesheet-based
\* (salary_slip_based_on_timesheet set) and some earning's component is the
\* structure's timesheet component; at most once; the notice never aborts
\* the save.
C10_NoticeIffTimesheetAndEarningMatches ==
    /\ Saved =>
          /\ TimesheetNotices # {} <=>
                doc.salary_slip_based_on_timesheet # 0 /\ EarningIsTimesheetComponent
          /\ Cardinality(TimesheetNotices) <= 1
    /\ Done /\ ~(FailsNetPay \/ FailsFlexi \/ FailsTaxSlab \/ FailsPaymentDays) => error = NoError

\* C10 witness: two earnings name the timesheet component and one notice is emitted
C10_Witness ==
    /\ Saved
    /\ Cardinality({i \in 1..Len(doc.earnings) :
                        doc.earnings[i].salary_component = doc.salary_component}) >= 2
    /\ Cardinality(TimesheetNotices) = 1

(***************************************************************************)
(* C6                                                                      *)
(***************************************************************************)
SameTuple(x, y) ==
    /\ x.employee = y.employee
    /\ x.salary_structure = y.salary_structure
    /\ x.from_date = y.from_date
    /\ x.company = y.company

NoDuplicateAssignments ==
    \A i \in 1..Len(assignments) : \A j \in 1..Len(assignments) :
        i # j /\ assignments[i].docstatus = 1 /\ assignments[j].docstatus = 1
            => ~SameTuple(assignments[i], assignments[j])

\* a requested employee with a submitted assignment for the structure, its
\* company and the date is returned, with the advisory
ExistingAreReported ==
    called.op = "get_existing" /\ ret.error = "none" =>
        \A e \in called.employees :
            (\E i \in 1..Len(assignments) :
                /\ assignments[i].employee = e
                /\ assignments[i].salary_structure = called.salary_structure.name
                /\ assignments[i].company = called.salary_structure.company
                /\ assignments[i].from_date = called.from_date
                /\ assignments[i].docstatus = 1)
            => e \in ret.employees /\ ret.advisory

\* C6: once a submitted assignment exists for an (employee, structure,
\* from_date, company) tuple, get_existing_assignments reports that
\* employee, and there are never two submitted assignments for one tuple.
C6_DuplicateDetectedAndNeverCreated ==
    ExistingAreReported /\ NoDuplicateAssignments

(***************************************************************************)
(* C7                                                                      *)
(***************************************************************************)
\* a payable account is supplied or configured for the company, and its
\* currency is the assignment's or the company's
AccountResolves(a) ==
    LET account == IF a.payroll_payable_account # NoneName
                   THEN a.payroll_payable_account
                   ELSE IF a.company = "C1" THEN company_account ELSE NoneName
    IN /\ account # NoneName
       /\ account \in DOMAIN Accounts
       /\ Accounts[account] \in {a.currency, get_company_currency(a.company)}

CreatedFrom(rec, a) ==
    /\ rec.docstatus = 1
    /\ rec.employee = a.employee
    /\ rec.salary_structure = a.salary_structure
    /\ rec.company = a.company
    /\ rec.currency = a.currency
    /\ rec.from_date = a.from_date
    /\ rec.payroll_payable_account \in {a.payroll_payable_account, company_account} \ {NoneName}

\* C7: create_salary_structure_assignment adds exactly one submitted
\* assignment if and only if a payable account is supplied or configured and
\* its currency equals the assignment currency or the company's currency;
\* otherwise it raises and the assignments are left as they were.
C7_CreatesIffAccountResolves ==
    [][called'.op = "create" =>
          IF AccountResolves(called'.args)
          THEN /\ ret'.error = "none"
               /\ Len(assignments') = Len(assignments) + 1
               /\ SubSeq(assignments', 1, Len(assignments)) = assignments
               /\ CreatedFrom(assignments'[Len(assignments')], called'.args)
          ELSE /\ ret'.error # "none"
               /\ assignments' = assignments]_vars

\* C7 witness: created on the company's default account, whose currency is the
\* company's and not the assignment's
C7_Witness ==
    /\ called.op = "create"
    /\ ret.error = "none"
    /\ called.args.payroll_payable_account = NoneName
    /\ called.args.currency = "EUR"
    /\ assignments[Len(assignments)].payroll_payable_account = "PAY_USD"
    /\ assignments[Len(assignments)].docstatus = 1

====
